---- MODULE Spec2Model ----
(***************************************************************************)
(* igloo-backend/server.js: the request handlers of the testing backend    *)
(* (test upload, edit, image replacement, deletion, selection, submission  *)
(* grading) over the two tables of sql/schema.sql and the uploads          *)
(* directory.                                                              *)
(*                                                                         *)
(* A handler is cut at its awaits: each action is one database statement   *)
(* together with the synchronous code that runs before the next await.     *)
(* Pure validation of the request body is evaluated in the handler's first *)
(* action (it reads nothing shared), side effects stay in the action of    *)
(* the code segment that performs them.                                    *)
(***************************************************************************)
EXTENDS Integers, Sequences, FiniteSets, TLC

\* ------------------------------------------------------------------ bounds
MaxTests == 1
MaxSubs == 1
MaxN == 2
MaxTotal == 40

\* ------------------------------------------------------- program constants
MinQuestions == 1
MaxQuestions == 200
DefaultChoices == 5

\* An optional request field or nullable column: <<>> is undefined / NULL.
None == <<>>
Some(v) == <<v>>
IsSome(o) == Len(o) > 0
Get(o) == o[1]

Max2(a, b) == IF a >= b THEN a ELSE b

\* ---------------------------------------------------------- answer-key codec
ABCDE == <<"A", "B", "C", "D", "E">>

\* "ABCDE".slice(0, c)
Letters(c) == SubSeq(ABCDE, 1, c)

\* letters.indexOf(ch): zero-based, -1 when absent
IndexOfOneBased(letters, ch) ==
  IF \E i \in 1..Len(letters) : letters[i] = ch
  THEN CHOOSE i \in 1..Len(letters) :
         letters[i] = ch /\ \A j \in 1..(i - 1) : letters[j] # ch
  ELSE -1

IndexOf(letters, ch) ==
  IF \E i \in 1..Len(letters) : letters[i] = ch
  THEN (CHOOSE i \in 1..Len(letters) :
          letters[i] = ch /\ \A j \in 1..(i - 1) : letters[j] # ch) - 1
  ELSE -1

IsSpace(ch) == ch = " "

ToUpper(ch) ==
  CASE ch = "a" -> "A"
    [] ch = "b" -> "B"
    [] ch = "c" -> "C"
    [] ch = "d" -> "D"
    [] ch = "e" -> "E"
    [] ch = "x" -> "X"
    [] OTHER -> ch

RECURSIVE StripUpper(_)
\* (answer_key || "").trim().toUpperCase().replace(/\s+/g, "")
StripUpper(str) ==
  IF str = <<>> THEN <<>>
  ELSE IF IsSpace(Head(str)) THEN StripUpper(Tail(str))
  ELSE <<ToUpper(Head(str))>> \o StripUpper(Tail(str))

NormalizeKey(str) == StripUpper(str)

\* The length check and the for loop that fills map: [ok, err, map]; map[i] is
\* the value of "q<i>".
EncodeKeyUnchecked(keyStr, n, letters) ==
  IF \E i \in 1..n : i > Len(keyStr) \/ IndexOf(letters, keyStr[i]) = -1
  THEN [ok |-> FALSE, err |-> "letters", map |-> <<>>]
  ELSE [ok |-> TRUE, err |-> "", map |-> [i \in 1..n |-> IndexOf(letters, keyStr[i])]]

EncodeKey(keyStr, n, letters) ==
  IF Len(keyStr) # n THEN [ok |-> FALSE, err |-> "length", map |-> <<>>]
  ELSE IF \E i \in 1..n : IndexOf(letters, keyStr[i]) = -1
  THEN [ok |-> FALSE, err |-> "letters", map |-> <<>>]
  ELSE [ok |-> TRUE, err |-> "", map |-> [i \in 1..n |-> IndexOf(letters, keyStr[i])]]

\* ------------------------------------------------- IEEE-754 double arithmetic
\* The doubles of the score expression. A double in (0, 1] times a small
\* integer is [m, e]: m five limbs <<l0, l1, l2, l3, l4>> in base 2^13, the
\* significand l0 * 2^52 + l1 * 2^39 + l2 * 2^26 + l3 * 2^13 + l4, and the
\* value m * 2^e. A normalised double has l0 = 1 (53 significant bits).
LimbBits == 13

RECURSIVE Pow2(_)
Pow2(k) == IF k = 0 THEN 1 ELSE 2 * Pow2(k - 1)

Limb == Pow2(LimbBits)

RECURSIVE ShiftUntil(_, _, _)
\* the least k >= 0 with a * 2^k >= b
ShiftUntil(a, b, k) == IF a >= b THEN k ELSE ShiftUntil(2 * a, b, k + 1)

\* m + u * 2^0 for a carry-free u < Limb, the carry running up the limbs
AddLow(m, u) ==
  LET s4 == m[5] + u
      s3 == m[4] + s4 \div Limb
      s2 == m[3] + s3 \div Limb
      s1 == m[2] + s2 \div Limb
      s0 == m[1] + s1 \div Limb
  IN <<s0, s1 % Limb, s2 % Limb, s3 % Limb, s4 % Limb>>

\* a / b for integers 0 < a <= b: the quotient rounded to 53 bits, ties to even
FDiv(a, b) ==
  LET k == ShiftUntil(a, b, 0)
      r0 == a * Pow2(k) - b
      d1 == (r0 * Limb) \div b
      r1 == (r0 * Limb) % b
      d2 == (r1 * Limb) \div b
      r2 == (r1 * Limb) % b
      d3 == (r2 * Limb) \div b
      r3 == (r2 * Limb) % b
      d4 == (r3 * Limb) \div b
      r4 == (r3 * Limb) % b
      up == 2 * r4 > b \/ (2 * r4 = b /\ d4 % 2 = 1)
      q == <<1, d1, d2, d3, d4>>
      m == IF up THEN AddLow(q, 1) ELSE q
  IN IF m[1] = 2 THEN [m |-> <<1, 0, 0, 0, 0>>, e |-> 1 - k - 4 * LimbBits]
     ELSE [m |-> m, e |-> 0 - k - 4 * LimbBits]

\* x * c for a normalised double x and an integer 0 < c < 2^13: the product
\* rounded to 53 bits, ties to even (its top limb holds the bits above 2^52)
FMulSmall(x, c) ==
  LET t4 == x.m[5] * c
      t3 == x.m[4] * c + t4 \div Limb
      t2 == x.m[3] * c + t3 \div Limb
      t1 == x.m[2] * c + t2 \div Limb
      t0 == x.m[1] * c + t1 \div Limb
      p == <<t0, t1 % Limb, t2 % Limb, t3 % Limb, t4 % Limb>>
      \* bits to cut: those of the top limb beyond its first
      d == ShiftUntil(1, t0 + 1, 0) - 1
      unit == Pow2(d)
      cut == p[5] % unit
      guard == IF d = 0 THEN 0 ELSE cut \div Pow2(d - 1)
      sticky == d > 0 /\ cut % Pow2(d - 1) # 0
      keptOdd == (p[5] \div unit) % 2 = 1
      up == guard = 1 /\ (sticky \/ keptOdd)
      floor == [p EXCEPT ![5] = p[5] - cut]
  IN [m |-> IF up THEN AddLow(floor, unit) ELSE floor, e |-> x.e]

\* Math.round(y) for y = FMulSmall(x, c), x in (0, 1]: the nearest integer,
\* ties upwards
FRound(y) ==
  LET k == 0 - y.e - 4 * LimbBits     \* y = (l0 + l1 / 2^13 + ...) / 2^k
  IN IF k > LimbBits THEN 0
     ELSE IF k = 0 THEN y.m[1] + (y.m[2] \div Pow2(LimbBits - 1))
     ELSE (y.m[1] \div Pow2(k)) + ((y.m[1] \div Pow2(k - 1)) % 2)

\* Math.round((correct / Math.max(total, 1)) * 100)
Score(correct, total) ==
  IF correct = 0 THEN 0
  ELSE FRound(FMulSmall(FDiv(correct, Max2(total, 1)), 100))

\* Object.entries(answerKey) loop: answers[qid] === correctIdx
IsCorrectInverted(answers, qid, correctIdx) ==
  ~(IsSome(answers) /\ qid \in DOMAIN Get(answers) /\ Get(answers)[qid] = correctIdx)

IsCorrect(answers, qid, correctIdx) ==
  IsSome(answers) /\ qid \in DOMAIN Get(answers) /\ Get(answers)[qid] = correctIdx

\* the grading of POST /submissions: [correct, total, score]
Grade(answerKey, answers) ==
  LET total == Cardinality(DOMAIN answerKey)
      correct == Cardinality({qid \in DOMAIN answerKey : IsCorrect(answers, qid, answerKey[qid])})
  IN [correct |-> correct, total |-> total, score |-> Score(correct, total)]

\* ------------------------------------------------------------------- schema
\* submissions.test_id uuid NOT NULL REFERENCES tests(id) ON DELETE CASCADE
TestIdNotNull == TRUE
OnDeleteCascade == TRUE

\* -------------------------------------------------------------------- state
VARIABLES
  tests,    \* table tests: id -> row
  subs,     \* table submissions: id -> row
  files,    \* the files of the uploads directory
  nTests,   \* test ids generated so far
  nSubs,    \* submission ids generated so far
  nFiles,   \* upload file names generated so far
  req,      \* the requests being served: slot -> handler position and locals
  workload  \* the request bodies this run draws from

vars == <<tests, subs, files, nTests, nSubs, nFiles, req, workload>>

MaxFiles == MaxTests + 1
TestIds == 1..MaxTests
SubIds == 1..MaxSubs
Slots == DOMAIN req

Idle == [pc |-> "idle"]
Pre == [tests |-> tests, subs |-> subs, files |-> files, nFiles |-> nFiles]

\* the lowest free slot takes the next request
CanStart(s) ==
  /\ req[s].pc = "idle"
  /\ \A r \in Slots : r < s => req[r].pc # "idle"

Done(op, id, in, pre, ctx, status, body) ==
  [pc |-> "done", op |-> op, id |-> id, in |-> in, pre |-> pre, ctx |-> ctx,
   status |-> status, body |-> body]

\* what the environment did to the request: the statement the database refused
\* ("" when none), and whether fs.unlinkSync threw
NoCtx == [fault |-> "", unlinkFailed |-> FALSE]
Fault(stage) == [fault |-> stage, unlinkFailed |-> FALSE]
Err(e) == [error |-> e]

\* multer's diskStorage: the uploaded file is on disk before the handler runs
FilesWith(in) == IF in.file THEN files \cup {nFiles + 1} ELSE files
NFilesWith(in) == IF in.file THEN nFiles + 1 ELSE nFiles
UploadedUrl == nFiles + 1

\* tryDeleteFile(relativeUrl): the directory afterwards; `unlinkOk` is whether
\* fs.unlinkSync succeeds (its error is caught and logged)
TryDeleteFile(dir, url, unlinkOk) ==
  IF ~IsSome(url) THEN dir
  ELSE IF Get(url) \in dir /\ unlinkOk THEN dir \ {Get(url)}
  ELSE dir

\* what a handler remembers of its tryDeleteFile call: the file was there and
\* the unlink threw
UnlinkFailed(dir, after, url) ==
  [fault |-> "", unlinkFailed |-> IsSome(url) /\ Get(url) \in dir /\ Get(url) \in after]

\* ------------------------------------------------------------ request bodies
\* The request bodies a run draws from are a workload, fixed by the initial
\* state: "assets" varies images, subjects and submissions, "codec" varies
\* question count, choice count and answer-key string, "grade" submits to
\* long tests.
Subjects == {"english", "math"}
KeyChars == {"B", "E", "e", " ", "X"}
MaxKeyLen == MaxN
KeyStrings == UNION {[1..k -> KeyChars] : k \in 0..MaxKeyLen}

UpperWord(w) ==
  CASE w = "english" -> "ENGLISH"
    [] w = "math" -> "MATH"
    [] OTHER -> w

\* `${subject.toUpperCase()} ${level} Test`
DefaultTitle(subject, level) == UpperWord(subject) \o " " \o level \o " Test"

BaseUpload ==
  [subject |-> "english", level |-> "beginner", title |-> None,
   num_questions |-> Some(1), choices_count |-> None, answer_key |-> Some(<<"B">>),
   file |-> TRUE]

CodecUploads ==
  {[BaseUpload EXCEPT !.num_questions = Some(n), !.choices_count = c, !.answer_key = Some(k)] :
      n \in 1..MaxN, c \in {None, Some(4)}, k \in KeyStrings}
  \cup {[BaseUpload EXCEPT !.answer_key = None]}
  \cup {[BaseUpload EXCEPT !.num_questions = n] :
      n \in {None, Some(MinQuestions - 1), Some(MaxQuestions + 1)}}
  \cup {[BaseUpload EXCEPT !.choices_count = c] : c \in {Some(0), Some(3), Some(5), Some(6)}}

AssetUploads ==
  {[BaseUpload EXCEPT !.subject = sb, !.title = t] :
      sb \in Subjects, t \in {None, Some("Quiz")}}
  \cup {[BaseUpload EXCEPT !.file = FALSE], [BaseUpload EXCEPT !.subject = ""],
        [BaseUpload EXCEPT !.level = ""], [BaseUpload EXCEPT !.answer_key = Some(<<"X">>)]}

BaseEdit ==
  [subject |-> None, level |-> None, title |-> None, num_questions |-> None,
   choices_count |-> None, answer_key |-> None, remove_image |-> FALSE, file |-> FALSE]

CodecEdits ==
  {[BaseEdit EXCEPT !.num_questions = n, !.choices_count = c, !.answer_key = k] :
      n \in {None} \cup {Some(i) : i \in 1..MaxN},
      c \in {None, Some(4), Some(5)},
      k \in {None} \cup {Some(x) : x \in KeyStrings}}
  \cup {[BaseEdit EXCEPT !.num_questions = n] :
      n \in {Some(MinQuestions - 1), Some(MaxQuestions + 1)}}
  \cup {[BaseEdit EXCEPT !.choices_count = c] : c \in {Some(0), Some(3), Some(6)}}
  \cup {[BaseEdit EXCEPT !.file = TRUE]}

AssetEdits ==
  {[BaseEdit EXCEPT !.remove_image = r, !.file = f, !.answer_key = k] :
      r \in BOOLEAN, f \in BOOLEAN, k \in {None, Some(<<"X">>)}}
  \cup {[BaseEdit EXCEPT !.subject = Some("math")], [BaseEdit EXCEPT !.title = Some("")],
        [BaseEdit EXCEPT !.choices_count = Some(4)]}

\* edits that race on one test: a new image, the image removed, a new title
ConcEdits ==
  {[BaseEdit EXCEPT !.file = TRUE], [BaseEdit EXCEPT !.remove_image = TRUE],
   [BaseEdit EXCEPT !.title = Some("Quiz")]}

ImageInputs == {[file |-> TRUE], [file |-> FALSE]}

\* a submitted answers object: question number i stands for the key "q<i>"
BaseSubmit == [test_id |-> Some(1), complete |-> TRUE, answers |-> Some(<<1>>)]

AssetSubmits ==
  {[BaseSubmit EXCEPT !.test_id = Some(t), !.answers = a] :
      t \in 1..MaxTests,
      a \in {None, Some(<<>>), Some(<<1>>), Some(<<4>>), Some(<<1, 0>>),
             Some((MaxN + 1) :> 1), Some(<<1>> @@ ((MaxN + 1) :> 1))}}
  \cup {[BaseSubmit EXCEPT !.test_id = None], [BaseSubmit EXCEPT !.complete = FALSE]}

CodecSubmits == {BaseSubmit}

\* for a key of t questions, the submission that answers the first c of them
\* correctly, leaves the odd ones after them out, answers the even ones
\* wrongly, and (t even) answers a question the key does not have
PrefixAnswers(key, c) ==
  LET t == Len(key)
      qids == {i \in 1..t : i <= c \/ i % 2 = 0} \cup (IF t % 2 = 0 THEN {t + 1} ELSE {})
  IN [i \in qids |-> IF i <= c THEN key[i] ELSE IF i <= t THEN (key[i] + 1) % 5 ELSE 0]

GradeSubmits(table) ==
  UNION {{[BaseSubmit EXCEPT !.test_id = Some(t),
                             !.answers = Some(PrefixAnswers(table[t].answer_key, c))] :
            c \in 0..Len(table[t].answer_key)} : t \in DOMAIN table}

BaseQuery == [subject |-> "english", level |-> "beginner", pick |-> "random"]

AssetQueries ==
  {[BaseQuery EXCEPT !.subject = sb, !.pick = p] :
      sb \in Subjects \cup {""}, p \in {"random", "latest"}}
  \cup {[BaseQuery EXCEPT !.level = ""]}

CodecQueries == {BaseQuery}

\* ------------------------------------------------ POST /admin/tests/upload
\* the checks before the INSERT: [ok, error, n, c, map]
UploadValidate(in) ==
  LET n == IF IsSome(in.num_questions) THEN Get(in.num_questions) ELSE 0
      cRaw == IF IsSome(in.choices_count) THEN Get(in.choices_count) ELSE 0
      c == IF cRaw = 0 THEN DefaultChoices ELSE cRaw
      keyStr == NormalizeKey(IF IsSome(in.answer_key) THEN Get(in.answer_key) ELSE <<>>)
      bad(e) == [ok |-> FALSE, error |-> e, n |-> 0, c |-> 0, map |-> <<>>]
  IN IF ~in.file THEN bad("image is required")
     ELSE IF in.subject = "" \/ in.level = "" THEN bad("subject and level are required")
     ELSE IF ~IsSome(in.num_questions) \/ n < MinQuestions \/ n > MaxQuestions
       THEN bad("num_questions must be 1-200")
     ELSE IF c \notin {4, 5} THEN bad("choices_count must be 4 or 5")
     ELSE LET enc == EncodeKey(keyStr, n, Letters(c))
          IN IF ~enc.ok THEN bad("answer_key " \o enc.err)
             ELSE [ok |-> TRUE, error |-> "", n |-> n, c |-> c, map |-> enc.map]

Upload(s, in) ==
  /\ CanStart(s)
  /\ in.file => nFiles < MaxFiles
  /\ files' = FilesWith(in)
  /\ nFiles' = NFilesWith(in)
  /\ UNCHANGED <<subs, nSubs, workload>>
  /\ LET v == UploadValidate(in)
     IN IF ~v.ok
        THEN /\ req' = [req EXCEPT ![s] = Done("upload", 0, in, Pre, NoCtx, 400, Err(v.error))]
             /\ UNCHANGED <<tests, nTests>>
        ELSE \E dbOk \in BOOLEAN :
          IF ~dbOk
          THEN /\ req' = [req EXCEPT ![s] = Done("upload", 0, in, Pre, Fault("insert"), 500, Err("upload failed"))]
               /\ UNCHANGED <<tests, nTests>>
          ELSE /\ nTests < MaxTests
               /\ LET id == nTests + 1
                      row == [subject |-> in.subject, level |-> in.level,
                              title |-> IF IsSome(in.title) /\ Get(in.title) # ""
                                        THEN Get(in.title)
                                        ELSE DefaultTitle(in.subject, in.level),
                              questions |-> [type |-> "image", image_url |-> Some(UploadedUrl),
                                             num_questions |-> v.n, choices_count |-> v.c],
                              answer_key |-> v.map, created_at |-> id]
                  IN /\ tests' = [t \in DOMAIN tests \cup {id} |->
                                    IF t = id THEN row ELSE tests[t]]
                     /\ nTests' = id
                     /\ req' = [req EXCEPT ![s] =
                          Done("upload", id, in, Pre, NoCtx, 200,
                               [id |-> id, subject |-> row.subject, level |-> row.level,
                                title |-> row.title, created_at |-> row.created_at])]

\* --------------------------------------------------- PUT /admin/tests/:id
\* the argument of the tryDeleteFile call of the image handling, None when
\* neither branch calls it
EditUnlinkTargetRemoveOnly(imageUrl, wantsRemove, hasFile) ==
  IF wantsRemove /\ IsSome(imageUrl) THEN imageUrl ELSE None

EditUnlinkTarget(imageUrl, wantsRemove, hasFile) ==
  IF (wantsRemove \/ hasFile) /\ IsSome(imageUrl) THEN imageUrl ELSE None

\* the code between the SELECT and the UPDATE, for the row `existing`:
\* [ok, error, del, row]; del is the argument of the tryDeleteFile call made
EditPlan(existing, in, newUrl) ==
  LET q == existing.questions
      currentChoicesCount == IF q.choices_count = 0 THEN DefaultChoices ELSE q.choices_count
      newChoicesCount == IF IsSome(in.choices_count) THEN Get(in.choices_count)
                         ELSE currentChoicesCount
      currentN == q.num_questions
      newN == IF IsSome(in.num_questions) THEN Get(in.num_questions) ELSE currentN
      bad(e) == [ok |-> FALSE, error |-> e, del |-> None, row |-> existing]
      wantsRemove == in.remove_image
      imageUrl0 == q.image_url
      imageUrl1 == IF wantsRemove /\ IsSome(imageUrl0) THEN None ELSE imageUrl0
      imageUrl2 == IF in.file THEN Some(newUrl) ELSE imageUrl1
      del == EditUnlinkTarget(imageUrl0, wantsRemove, in.file)
      build(map) ==
        [ok |-> TRUE, error |-> "", del |-> del,
         row |-> [subject |-> IF IsSome(in.subject) THEN Get(in.subject) ELSE existing.subject,
                  level |-> IF IsSome(in.level) THEN Get(in.level) ELSE existing.level,
                  title |-> IF IsSome(in.title) THEN Get(in.title) ELSE existing.title,
                  questions |-> [type |-> q.type, image_url |-> imageUrl2,
                                 num_questions |-> newN, choices_count |-> newChoicesCount],
                  answer_key |-> map, created_at |-> existing.created_at]]
  IN IF q.type # "image" THEN bad("Only image tests supported for editing right now.")
     ELSE IF newChoicesCount \notin {4, 5} THEN bad("choices_count must be 4 or 5")
     ELSE IF newN < MinQuestions \/ newN > MaxQuestions THEN bad("num_questions must be 1-200")
     ELSE IF IsSome(in.answer_key)
       THEN LET enc == EncodeKey(NormalizeKey(Get(in.answer_key)), newN, Letters(newChoicesCount))
            IN IF ~enc.ok THEN bad("answer_key " \o enc.err) ELSE build(enc.map)
     ELSE build(existing.answer_key)

\* SELECT ... FROM tests WHERE id=$1, and the checks that follow it
EditSelect(s, id, in) ==
  /\ CanStart(s)
  /\ in.file => nFiles < MaxFiles
  /\ files' = FilesWith(in)
  /\ nFiles' = NFilesWith(in)
  /\ UNCHANGED <<tests, subs, nTests, nSubs, workload>>
  /\ \E dbOk \in BOOLEAN :
       IF ~dbOk
       THEN req' = [req EXCEPT ![s] = Done("edit", id, in, Pre, Fault("select"), 500, Err("failed to edit test"))]
       ELSE IF id \notin DOMAIN tests
       THEN req' = [req EXCEPT ![s] = Done("edit", id, in, Pre, NoCtx, 404, Err("test not found"))]
       ELSE LET plan == EditPlan(tests[id], in, UploadedUrl)
            IN IF ~plan.ok
               THEN req' = [req EXCEPT ![s] = Done("edit", id, in, Pre, NoCtx, 400, Err(plan.error))]
               ELSE req' = [req EXCEPT ![s] =
                      [pc |-> "edit_unlink", op |-> "edit", id |-> id, in |-> in, pre |-> Pre,
                       ctx |-> NoCtx, del |-> plan.del, row |-> plan.row]]

\* tryDeleteFile(imageUrl) of the remove / replace branches, before the UPDATE
EditUnlink(s) ==
  /\ req[s].pc = "edit_unlink"
  /\ \E unlinkOk \in BOOLEAN :
       /\ files' = TryDeleteFile(files, req[s].del, unlinkOk)
       /\ req' = [req EXCEPT ![s].pc = "edit_update",
                             ![s].ctx = UnlinkFailed(files, files', req[s].del)]
  /\ UNCHANGED <<tests, subs, nTests, nSubs, nFiles, workload>>

\* UPDATE tests SET ... WHERE id=$6 RETURNING ...; res.json(rows[0])
EditUpdate(s) ==
  /\ req[s].pc = "edit_update"
  /\ LET r == req[s]
     IN \E dbOk \in BOOLEAN :
          IF ~dbOk
          THEN /\ req' = [req EXCEPT ![s] = Done("edit", r.id, r.in, r.pre, [r.ctx EXCEPT !.fault = "update"], 500, Err("failed to edit test"))]
               /\ UNCHANGED tests
          ELSE IF r.id \in DOMAIN tests
          THEN /\ tests' = [tests EXCEPT ![r.id] = r.row]
               /\ req' = [req EXCEPT ![s] = Done("edit", r.id, r.in, r.pre, r.ctx, 200, [id |-> r.id])]
          ELSE /\ UNCHANGED tests
               /\ req' = [req EXCEPT ![s] = Done("edit", r.id, r.in, r.pre, r.ctx, 200, [id |-> 0])]
  /\ UNCHANGED <<subs, files, nTests, nSubs, nFiles, workload>>

\* --------------------------------------------- PUT /admin/tests/:id/image

ImageSelect(s, id, in) ==
  /\ CanStart(s)
  /\ in.file => nFiles < MaxFiles
  /\ files' = FilesWith(in)
  /\ nFiles' = NFilesWith(in)
  /\ UNCHANGED <<tests, subs, nTests, nSubs, workload>>
  /\ IF ~in.file
     THEN req' = [req EXCEPT ![s] = Done("image", id, in, Pre, NoCtx, 400, Err("image is required"))]
     ELSE \E dbOk \in BOOLEAN :
       IF ~dbOk
       THEN req' = [req EXCEPT ![s] = Done("image", id, in, Pre, Fault("select"), 500, Err("failed to replace image"))]
       ELSE IF id \notin DOMAIN tests
       THEN req' = [req EXCEPT ![s] = Done("image", id, in, Pre, NoCtx, 404, Err("test not found"))]
       ELSE req' = [req EXCEPT ![s] =
              [pc |-> "image_update", op |-> "image", id |-> id, in |-> in, pre |-> Pre,
               ctx |-> NoCtx, oldUrl |-> tests[id].questions.image_url,
               questions |-> [tests[id].questions EXCEPT !.image_url = Some(UploadedUrl)]]]

\* the uploads directory after `await pool.query(UPDATE ...)` and the line that
\* follows it: a rejected query throws past tryDeleteFile(oldUrl)
ImageFilesEarlyUnlink(dir, oldUrl, dbOk, unlinkOk) == TryDeleteFile(dir, oldUrl, unlinkOk)

ImageFiles(dir, oldUrl, dbOk, unlinkOk) ==
  IF dbOk THEN TryDeleteFile(dir, oldUrl, unlinkOk) ELSE dir

\* UPDATE tests SET questions=$1 WHERE id=$2; tryDeleteFile(oldUrl); res.json
ImageUpdate(s) ==
  /\ req[s].pc = "image_update"
  /\ LET r == req[s]
     IN \E dbOk \in BOOLEAN, unlinkOk \in BOOLEAN :
          /\ files' = ImageFiles(files, r.oldUrl, dbOk, unlinkOk)
          /\ IF ~dbOk
             THEN /\ req' = [req EXCEPT ![s] = Done("image", r.id, r.in, r.pre,
                                                  Fault("update"),
                                                  500, Err("failed to replace image"))]
                  /\ UNCHANGED tests
             ELSE IF r.id \in DOMAIN tests
             THEN /\ tests' = [tests EXCEPT ![r.id].questions = r.questions]
                  /\ req' = [req EXCEPT ![s] =
                       Done("image", r.id, r.in, r.pre, UnlinkFailed(files, files', r.oldUrl), 200,
                            [id |-> r.id, image_url |-> r.questions.image_url])]
             ELSE \* rows[0] is undefined: rows[0].id throws after the unlink
                  /\ UNCHANGED tests
                  /\ req' = [req EXCEPT ![s] =
                       Done("image", r.id, r.in, r.pre, UnlinkFailed(files, files', r.oldUrl), 500,
                            Err("failed to replace image"))]
  /\ UNCHANGED <<subs, nTests, nSubs, nFiles, workload>>

\* ------------------------------------------------ DELETE /admin/tests/:id
\* SELECT questions FROM tests WHERE id=$1
DeleteSelect(s, id) ==
  /\ CanStart(s)
  /\ UNCHANGED <<tests, subs, files, nTests, nSubs, nFiles, workload>>
  /\ \E dbOk \in BOOLEAN :
       IF ~dbOk
       THEN req' = [req EXCEPT ![s] = Done("delete", id, None, Pre, Fault("select"), 500, Err("failed to delete test"))]
       ELSE IF id \notin DOMAIN tests
       THEN req' = [req EXCEPT ![s] = Done("delete", id, None, Pre, NoCtx, 404, Err("test not found"))]
       ELSE req' = [req EXCEPT ![s] =
              [pc |-> "delete_detach", op |-> "delete", id |-> id, in |-> None, pre |-> Pre,
               ctx |-> NoCtx, imageUrl |-> tests[id].questions.image_url]]

\* the rows UPDATE submissions SET test_id = NULL WHERE test_id = $1 touches
Referencing(table, id) == {sid \in DOMAIN table : table[sid].test_id = Some(id)}

\* the statement under the column's constraint: [ok, table]
Detach(table, id) ==
  IF TestIdNotNull /\ Referencing(table, id) # {}
  THEN [ok |-> FALSE, table |-> table]
  ELSE [ok |-> TRUE,
        table |-> [sid \in DOMAIN table |->
                     IF sid \in Referencing(table, id)
                     THEN [table[sid] EXCEPT !.test_id = None] ELSE table[sid]]]

DeleteDetach(s) ==
  /\ req[s].pc = "delete_detach"
  /\ LET r == req[s]
         d == Detach(subs, r.id)
     IN \E dbOk \in BOOLEAN :
          IF ~dbOk \/ ~d.ok
          THEN /\ req' = [req EXCEPT ![s] =
                    Done("delete", r.id, None, r.pre,
                         Fault(IF ~dbOk THEN "detach" ELSE "not-null constraint"), 500,
                         Err("failed to delete test"))]
               /\ UNCHANGED subs
          ELSE /\ subs' = d.table
               /\ req' = [req EXCEPT ![s].pc = "delete_delete"]
  /\ UNCHANGED <<tests, files, nTests, nSubs, nFiles, workload>>

\* the submissions left by DELETE FROM tests WHERE id=$1 (the foreign key's
\* ON DELETE action)
AfterTestDelete(table, id) ==
  IF OnDeleteCascade
  THEN [sid \in DOMAIN table \ Referencing(table, id) |-> table[sid]]
  ELSE [sid \in DOMAIN table |->
          IF sid \in Referencing(table, id)
          THEN [table[sid] EXCEPT !.test_id = None] ELSE table[sid]]

\* the uploads directory after the DELETE statement and the lines after it
DeleteFilesEarlyUnlink(dir, imageUrl, deleted, unlinkOk) == TryDeleteFile(dir, imageUrl, unlinkOk)

DeleteFiles(dir, imageUrl, deleted, unlinkOk) ==
  IF deleted THEN TryDeleteFile(dir, imageUrl, unlinkOk) ELSE dir

\* DELETE FROM tests WHERE id=$1 RETURNING id; tryDeleteFile(imageUrl); res.json
DeleteDelete(s) ==
  /\ req[s].pc = "delete_delete"
  /\ LET r == req[s]
     IN \E dbOk \in BOOLEAN, unlinkOk \in BOOLEAN :
          LET deleted == dbOk /\ r.id \in DOMAIN tests
          IN /\ files' = DeleteFiles(files, r.imageUrl, deleted, unlinkOk)
             /\ IF ~dbOk
                THEN /\ req' = [req EXCEPT ![s] =
                          Done("delete", r.id, None, r.pre,
                               Fault("delete"),
                               500, Err("failed to delete test"))]
                     /\ UNCHANGED <<tests, subs>>
                ELSE IF ~deleted
                THEN /\ req' = [req EXCEPT ![s] = Done("delete", r.id, None, r.pre, NoCtx, 404,
                                                     Err("test not found"))]
                     /\ UNCHANGED <<tests, subs>>
                ELSE /\ tests' = [t \in DOMAIN tests \ {r.id} |-> tests[t]]
                     /\ subs' = AfterTestDelete(subs, r.id)
                     /\ req' = [req EXCEPT ![s] =
                          Done("delete", r.id, None, r.pre, UnlinkFailed(files, files', r.imageUrl),
                               200, [ok |-> TRUE])]
  /\ UNCHANGED <<nTests, nSubs, nFiles, workload>>

\* ---------------------------------------------------------- POST /submissions
\* SELECT answer_key FROM tests WHERE id=$1, and the grading loop
SubmitSelect(s, in) ==
  /\ CanStart(s)
  /\ UNCHANGED <<tests, subs, files, nTests, nSubs, nFiles, workload>>
  /\ IF ~IsSome(in.test_id) \/ ~in.complete
     THEN req' = [req EXCEPT ![s] = Done("submit", 0, in, Pre, NoCtx, 400, Err("missing required fields"))]
     ELSE \E dbOk \in BOOLEAN :
       LET id == Get(in.test_id)
       IN IF ~dbOk
          THEN req' = [req EXCEPT ![s] = Done("submit", id, in, Pre, Fault("select"), 500, Err("submission failed"))]
          ELSE IF id \notin DOMAIN tests
          THEN req' = [req EXCEPT ![s] = Done("submit", id, in, Pre, NoCtx, 404, Err("test not found"))]
          ELSE req' = [req EXCEPT ![s] =
                 [pc |-> "submit_insert", op |-> "submit", id |-> id, in |-> in, pre |-> Pre,
                  ctx |-> NoCtx, answerKey |-> tests[id].answer_key,
                  score |-> Grade(tests[id].answer_key, in.answers).score]]

\* INSERT INTO submissions(...) RETURNING id, score, submitted_at
SubmitInsert(s) ==
  /\ req[s].pc = "submit_insert"
  /\ UNCHANGED <<tests, files, nTests, nFiles, workload>>
  /\ LET r == req[s]
     IN \E dbOk \in BOOLEAN :
          IF ~dbOk \/ r.id \notin DOMAIN tests   \* the foreign key rejects the row
          THEN /\ req' = [req EXCEPT ![s] =
                    Done("submit", r.id, r.in, r.pre,
                         Fault(IF ~dbOk THEN "insert" ELSE "foreign key"), 500,
                         Err("submission failed"))]
               /\ UNCHANGED <<subs, nSubs>>
          ELSE /\ nSubs < MaxSubs
               /\ LET sid == nSubs + 1
                      row == [test_id |-> Some(r.id),
                              answers |-> IF IsSome(r.in.answers) THEN Get(r.in.answers) ELSE <<>>,
                              score |-> r.score]
                  IN /\ subs' = [x \in DOMAIN subs \cup {sid} |-> IF x = sid THEN row ELSE subs[x]]
                     /\ nSubs' = sid
                     /\ req' = [req EXCEPT ![s] =
                          Done("submit", r.id, r.in, r.pre, NoCtx, 200,
                               [id |-> sid, score |-> r.score])]

\* ------------------------------------------------ GET /admin/submissions/:id
\* row.test_title || "(deleted test)" over the LEFT JOIN
SubmissionTitle(table, sub) ==
  IF IsSome(sub.test_id) /\ Get(sub.test_id) \in DOMAIN table
     /\ table[Get(sub.test_id)].title # ""
  THEN table[Get(sub.test_id)].title
  ELSE "(deleted test)"

GetSubmission(s, sid) ==
  /\ CanStart(s)
  /\ UNCHANGED <<tests, subs, files, nTests, nSubs, nFiles, workload>>
  /\ \E dbOk \in BOOLEAN :
       IF ~dbOk
       THEN req' = [req EXCEPT ![s] = Done("get_submission", sid, None, Pre, Fault("select"), 500, Err("failed to load submission"))]
       ELSE IF sid \notin DOMAIN subs
       THEN req' = [req EXCEPT ![s] = Done("get_submission", sid, None, Pre, NoCtx, 404, Err("not found"))]
       ELSE req' = [req EXCEPT ![s] =
              Done("get_submission", sid, None, Pre, NoCtx, 200,
                   [id |-> sid, test_id |-> subs[sid].test_id, score |-> subs[sid].score,
                    title |-> SubmissionTitle(tests, subs[sid])])]

\* --------------------------------------------- DELETE /admin/submissions/:id
DeleteSubmission(s, sid) ==
  /\ CanStart(s)
  /\ UNCHANGED <<tests, files, nTests, nSubs, nFiles, workload>>
  /\ \E dbOk \in BOOLEAN :
       IF ~dbOk
       THEN /\ req' = [req EXCEPT ![s] = Done("delete_submission", sid, None, Pre, Fault("delete"), 500, Err("failed to delete submission"))]
            /\ UNCHANGED subs
       ELSE IF sid \notin DOMAIN subs
       THEN /\ req' = [req EXCEPT ![s] = Done("delete_submission", sid, None, Pre, NoCtx, 404, Err("not found"))]
            /\ UNCHANGED subs
       ELSE /\ subs' = [x \in DOMAIN subs \ {sid} |-> subs[x]]
            /\ req' = [req EXCEPT ![s] = Done("delete_submission", sid, None, Pre, NoCtx, 200, [ok |-> TRUE, id |-> sid])]

\* ------------------------------------------------------------------ GET /tests
\* a row of tests with its columns by name
TestRow(table, id) ==
  [id |-> id, subject |-> table[id].subject, level |-> table[id].level,
   title |-> table[id].title, questions |-> table[id].questions,
   answer_key |-> table[id].answer_key, created_at |-> table[id].created_at]

\* SELECT id, title, subject, level, questions, created_at
SelectedColumnsRaw == {"id", "title", "subject", "level", "questions", "answer_key", "created_at"}

SelectedColumns == {"id", "title", "subject", "level", "questions", "created_at"}

\* WHERE subject = $1 AND level = $2
Matching(table, subject, level) ==
  {id \in DOMAIN table : table[id].subject = subject /\ table[id].level = level}

GetTests(s, in) ==
  /\ CanStart(s)
  /\ UNCHANGED <<tests, subs, files, nTests, nSubs, nFiles, workload>>
  /\ IF in.subject = "" \/ in.level = ""
     THEN req' = [req EXCEPT ![s] = Done("get_tests", 0, in, Pre, NoCtx, 400, Err("subject and level are required"))]
     ELSE \E dbOk \in BOOLEAN :
       LET m == Matching(tests, in.subject, in.level)
       IN IF ~dbOk
          THEN req' = [req EXCEPT ![s] = Done("get_tests", 0, in, Pre, Fault("select"), 500, Err("Server error"))]
          ELSE IF m = {}
          THEN req' = [req EXCEPT ![s] = Done("get_tests", 0, in, Pre, NoCtx, 404, Err("No tests found for that subject/level"))]
          ELSE \E id \in m :
                 \* ORDER BY created_at DESC or random(), LIMIT 1
                 /\ in.pick = "latest" => \A o \in m : tests[o].created_at <= tests[id].created_at
                 /\ req' = [req EXCEPT ![s] =
                      Done("get_tests", id, in, Pre, NoCtx, 200,
                           [c \in SelectedColumns |-> TestRow(tests, id)[c]])]

\* the response has been sent
Close(s) ==
  /\ req[s].pc = "done"
  /\ req' = [req EXCEPT ![s] = Idle]
  /\ UNCHANGED <<tests, subs, files, nTests, nSubs, nFiles, workload>>

UploadInputs == IF workload = "codec" THEN CodecUploads ELSE AssetUploads
EditInputs ==
  CASE workload = "codec" -> CodecEdits
    [] workload = "conc" -> ConcEdits
    [] OTHER -> AssetEdits
QueryInputs == IF workload = "codec" THEN CodecQueries ELSE AssetQueries
SubmitInputs ==
  CASE workload = "codec" -> CodecSubmits
    [] workload = "grade" -> GradeSubmits(tests)
    [] OTHER -> AssetSubmits

InitStore ==
  /\ tests = <<>>
  /\ subs = <<>>
  /\ files = {}
  /\ nTests = 0
  /\ nSubs = 0
  /\ nFiles = 0

\* requests are served one at a time
Init == InitStore /\ req = [s \in {1} |-> Idle] /\ workload = "assets"

InitCodec == InitStore /\ req = [s \in {1} |-> Idle] /\ workload = "codec"

Next ==
  \E s \in Slots :
    \/ \E in \in UploadInputs : Upload(s, in)
    \/ \E id \in TestIds, in \in EditInputs : EditSelect(s, id, in)
    \/ EditUnlink(s)
    \/ EditUpdate(s)
    \/ \E id \in TestIds, in \in ImageInputs : ImageSelect(s, id, in)
    \/ ImageUpdate(s)
    \/ \E id \in TestIds : DeleteSelect(s, id)
    \/ DeleteDetach(s)
    \/ DeleteDelete(s)
    \/ \E in \in SubmitInputs : SubmitSelect(s, in)
    \/ SubmitInsert(s)
    \/ \E sid \in SubIds : GetSubmission(s, sid)
    \/ \E sid \in SubIds : DeleteSubmission(s, sid)
    \/ \E in \in QueryInputs : GetTests(s, in)
    \/ Close(s)

Spec == Init /\ [][Next]_vars

SpecCodec == InitCodec /\ [][Next]_vars

\* a stored test of t questions whose key runs through the five choices
LongTest(t) ==
  [subject |-> "english", level |-> "beginner", title |-> "ENGLISH beginner Test",
   questions |-> [type |-> "image", image_url |-> Some(1), num_questions |-> t,
                  choices_count |-> DefaultChoices],
   answer_key |-> [i \in 1..t |-> (2 * i) % 5], created_at |-> 1]

InitGrade ==
  /\ \E t \in 0..MaxTotal : tests = <<LongTest(t)>>
  /\ subs = <<>>
  /\ files = {1}
  /\ nTests = 1
  /\ nSubs = 0
  /\ nFiles = 1
  /\ req = [s \in {1} |-> Idle]
  /\ workload = "grade"

NextGrade ==
  \E s \in Slots :
    \/ \E in \in SubmitInputs : SubmitSelect(s, in)
    \/ SubmitInsert(s)
    \/ Close(s)

SpecGrade == InitGrade /\ [][NextGrade]_vars

\* two requests in flight on one stored test: edit, image-only replacement and
\* deletion interleave at their awaits
InitConc ==
  /\ tests = <<LongTest(1)>>
  /\ subs = <<>>
  /\ files = {1}
  /\ nTests = 1
  /\ nSubs = 0
  /\ nFiles = 1
  /\ req = [s \in {1, 2} |-> Idle]
  /\ workload = "conc"

\* tryDeleteFile is synchronous: the edit handler that has its row runs on to
\* its UPDATE before any other handler continues
InSynchronousCode(s) == req[s].pc = "edit_unlink"

NextConc ==
  \E s \in Slots :
    /\ \A r \in Slots : InSynchronousCode(r) => r = s
    /\ \/ \E id \in TestIds, in \in EditInputs : EditSelect(s, id, in)
       \/ EditUnlink(s)
       \/ EditUpdate(s)
       \/ \E id \in TestIds, in \in ImageInputs : ImageSelect(s, id, in)
       \/ ImageUpdate(s)
       \/ \E id \in TestIds : DeleteSelect(s, id)
       \/ DeleteDetach(s)
       \/ DeleteDelete(s)
       \/ Close(s)

SpecConc == InitConc /\ [][NextConc]_vars

\* ===================================================================== claims
Finished(s, op) == req[s].pc = "done" /\ req[s].op = op

\* a finished request whose test was stored when the request arrived
OnStoredTest(s) == req[s].id \in DOMAIN req[s].pre.tests

\* C1: deleting a stored test T (the database not failing) removes T and
\* deletes none of its submissions: each submission that referenced T is
\* still stored, with its test reference null, and fetching it reports
\* "(deleted test)" as its title.
C1_DeleteDetachesSubmissions ==
  \A s \in Slots :
    (Finished(s, "delete") /\ OnStoredTest(s)
       /\ req[s].ctx.fault \notin {"select", "detach", "delete"})
    => /\ req[s].status = 200
       /\ req[s].id \notin DOMAIN tests
       /\ \A sid \in Referencing(req[s].pre.subs, req[s].id) :
            /\ sid \in DOMAIN subs
            /\ subs[sid].test_id = None
            /\ SubmissionTitle(tests, subs[sid]) = "(deleted test)"

\* round(100 * correct / max(total, 1)), halves upwards, over the integers
ClaimedScore(answerKey, answers) ==
  LET total == Cardinality(DOMAIN answerKey)
      correct == Cardinality({q \in DOMAIN answerKey \cap DOMAIN answers :
                                answers[q] = answerKey[q]})
      m == IF total > 1 THEN total ELSE 1
  IN (200 * correct + m) \div (2 * m)

StoredAnswers(in) == IF IsSome(in.answers) THEN Get(in.answers) ELSE <<>>

\* C2: a submission to a stored test (all fields present, the database not
\* failing) is stored with score round(100 * correct / max(total, 1)), total
\* the number of question-ids of the test's key and correct the number of
\* them answered with the keyed index; an empty key gives score 0.
C2_ScoreIsRoundedPercentage ==
  \A s \in Slots :
    (Finished(s, "submit") /\ OnStoredTest(s) /\ req[s].ctx.fault = "")
    => /\ req[s].status = 200
       /\ req[s].body.score =
            ClaimedScore(req[s].pre.tests[req[s].id].answer_key, StoredAnswers(req[s].in))
       /\ req[s].body.id \in DOMAIN subs
       /\ subs[req[s].body.id].score = req[s].body.score

\* the question count and choice count a finished upload or edit declared:
\* the request's own, else (edit) those of the test it found, else (upload)
\* five choices
DeclaredN(r) ==
  IF IsSome(r.in.num_questions) THEN Get(r.in.num_questions)
  ELSE IF r.op = "edit" THEN r.pre.tests[r.id].questions.num_questions
  ELSE 0

DeclaredC(r) ==
  IF IsSome(r.in.choices_count) /\ (r.op = "edit" \/ Get(r.in.choices_count) # 0)
  THEN Get(r.in.choices_count)
  ELSE IF r.op = "edit" THEN r.pre.tests[r.id].questions.choices_count
  ELSE 5

\* the first c letters of "ABCDE"
FirstLetters(c) == {ABCDE[i] : i \in 1..(IF c < 5 THEN c ELSE 5)}

\* a finished upload or edit that supplied an answer-key string and got as far
\* as the codec: the database answered, the edited test was found, an upload
\* carried its image, subject and level
ReachedCodec(s) ==
  /\ req[s].pc = "done"
  /\ req[s].op \in {"upload", "edit"}
  /\ req[s].ctx.fault = ""
  /\ IsSome(req[s].in.answer_key)
  /\ req[s].op = "edit" => OnStoredTest(s)
  /\ req[s].op = "upload" =>
       req[s].in.file /\ req[s].in.subject # "" /\ req[s].in.level # ""

\* C3: an upload or edit whose answer-key string has length N (1 <= N <= 200)
\* and uses only the first C letters of "ABCDE" (C 4 or 5) succeeds, and the
\* test is stored with exactly the entries q1..qN, q<i> the zero-based index
\* of the i-th letter, every value in [0, C).
C3_ValidKeyIsEncoded ==
  \A s \in Slots :
    (/\ ReachedCodec(s)
     /\ DeclaredN(req[s]) \in 1..200
     /\ DeclaredC(req[s]) \in {4, 5}
     /\ Len(Get(req[s].in.answer_key)) = DeclaredN(req[s])
     /\ \A i \in 1..DeclaredN(req[s]) :
          Get(req[s].in.answer_key)[i] \in FirstLetters(DeclaredC(req[s])))
    => /\ req[s].status = 200
       /\ req[s].id \in DOMAIN tests
       /\ LET key == tests[req[s].id].answer_key
              raw == Get(req[s].in.answer_key)
          IN /\ DOMAIN key = 1..DeclaredN(req[s])
             /\ \A i \in DOMAIN key :
                  /\ key[i] \in 0..(DeclaredC(req[s]) - 1)
                  /\ ABCDE[key[i] + 1] = raw[i]

C3_Witness ==
  \E s \in Slots :
    /\ ReachedCodec(s)
    /\ req[s].op = "edit"
    /\ req[s].status = 200
    /\ DeclaredC(req[s]) = 4
    /\ Get(req[s].in.answer_key) = [i \in 1..MaxN |-> "B"]
    /\ tests[req[s].id].answer_key = [i \in 1..MaxN |-> 1]

NotSpace(ch) == ch # " "

\* the string with its whitespace removed and its letters in upper case
Canonical(str) ==
  LET kept == SelectSeq(str, NotSpace)
  IN [i \in 1..Len(kept) |-> ToUpper(kept[i])]

Rejected(s) == req[s].status = 400 /\ tests = req[s].pre.tests

\* C4 as claimed: an upload or edit whose supplied answer-key string has a
\* length other than N, or a character outside the first C letters, fails
\* with 400 and leaves the stored tests unchanged.
C4_RawKeyRejected ==
  \A s \in Slots :
    (/\ ReachedCodec(s)
     /\ LET raw == Get(req[s].in.answer_key)
        IN \/ Len(raw) # DeclaredN(req[s])
           \/ \E i \in 1..Len(raw) : raw[i] \notin FirstLetters(DeclaredC(req[s])))
    => Rejected(s)

\* C4 amended: an upload or edit whose supplied answer-key string, with its
\* whitespace removed and its letters upper-cased, has a length other than N
\* or a character outside the first C letters, fails with 400 and leaves the
\* stored tests unchanged.
C4_CanonicalKeyRejected ==
  \A s \in Slots :
    (/\ ReachedCodec(s)
     /\ LET can == Canonical(Get(req[s].in.answer_key))
        IN \/ Len(can) # DeclaredN(req[s])
           \/ \E i \in 1..Len(can) : can[i] \notin FirstLetters(DeclaredC(req[s])))
    => Rejected(s)

C4_Witness ==
  \E s \in Slots :
    /\ ReachedCodec(s)
    /\ req[s].op = "edit"
    /\ req[s].status = 400
    /\ DeclaredN(req[s]) = 1
    /\ DeclaredC(req[s]) = 4
    /\ Get(req[s].in.answer_key) = <<" ", "e">>
    /\ tests = req[s].pre.tests

\* C5: every stored test has as many answer-key entries as
\* questions.num_questions, q1..qN, and every value v is 0 <= v < choices_count.
C5_KeyMatchesQuestions ==
  \A id \in DOMAIN tests :
    /\ DOMAIN tests[id].answer_key = 1..tests[id].questions.num_questions
    /\ \A q \in DOMAIN tests[id].answer_key :
         /\ 0 <= tests[id].answer_key[q]
         /\ tests[id].answer_key[q] < tests[id].questions.choices_count

\* a finished request that replaced the image of a stored test: an edit
\* carrying a file, or the image-only operation, answered with 200
Replaced(s) ==
  /\ req[s].pc = "done"
  /\ req[s].status = 200
  /\ OnStoredTest(s)
  /\ \/ req[s].op = "image"
     \/ req[s].op = "edit" /\ req[s].in.file

\* the asset the test referenced when the request arrived, and the upload
OldAssets(s) ==
  LET url == req[s].pre.tests[req[s].id].questions.image_url
  IN IF IsSome(url) THEN {Get(url)} ELSE {}

NewAsset(s) == req[s].pre.nFiles + 1

ReferencesNewAsset(s) ==
  /\ req[s].id \in DOMAIN tests
  /\ tests[req[s].id].questions.image_url = Some(NewAsset(s))
  /\ NewAsset(s) \in files

\* C6 as claimed: a replacement removes exactly the asset referenced before
\* and no other file, and the test then references the uploaded file, which
\* exists.
C6_ReplacementDeletesPrevious ==
  \A s \in Slots :
    Replaced(s)
    => /\ files = (req[s].pre.files \cup {NewAsset(s)}) \ OldAssets(s)
       /\ ReferencesNewAsset(s)

\* C6 amended: a replacement removes no file other than the asset referenced
\* before, removes that one unless its unlink fails (the failure is
\* swallowed and the file stays), and the test then references the uploaded
\* file, which exists.
C6_ReplacementDeletesPreviousUnlessUnlinkFails ==
  \A s \in Slots :
    Replaced(s)
    => /\ files = IF req[s].ctx.unlinkFailed
                  THEN req[s].pre.files \cup {NewAsset(s)}
                  ELSE (req[s].pre.files \cup {NewAsset(s)}) \ OldAssets(s)
       /\ req[s].ctx.unlinkFailed => OldAssets(s) \subseteq req[s].pre.files
       /\ ReferencesNewAsset(s)

C6_Witness ==
  \E s \in Slots :
    /\ Replaced(s)
    /\ req[s].op = "edit"
    /\ ~req[s].ctx.unlinkFailed
    /\ OldAssets(s) # {}
    /\ OldAssets(s) \subseteq req[s].pre.files
    /\ OldAssets(s) \cap files = {}
    /\ ReferencesNewAsset(s)

\* b is a except that one question of the key, missing or wrong in a, is
\* answered with the keyed index in b
OneMoreCorrect(key, a, b) ==
  \E q \in DOMAIN key :
    /\ q \notin DOMAIN a \/ a[q] # key[q]
    /\ q \in DOMAIN b /\ b[q] = key[q]
    /\ DOMAIN b = DOMAIN a \cup {q}
    /\ \A p \in DOMAIN a \ {q} : b[p] = a[p]

\* a request graded and about to be inserted, against a stored submission to
\* the same test that it improves on by one correct answer
Improves(s, sid) ==
  /\ req[s].pc = "submit_insert"
  /\ sid \in DOMAIN subs
  /\ subs[sid].test_id = Some(req[s].id)
  /\ req[s].id \in DOMAIN tests
  /\ tests[req[s].id].answer_key = req[s].answerKey
  /\ OneMoreCorrect(req[s].answerKey, subs[sid].answers, StoredAnswers(req[s].in))

\* C7: for a key and answers A, A', A' being A except that one question of
\* the key that was missing or wrong in A is answered correctly in A', the
\* score graded for A' is at least the score graded for A.
C7_GradingIsMonotonic ==
  \A s \in Slots : \A sid \in SubIds :
    Improves(s, sid) => req[s].score >= subs[sid].score

C7_Witness ==
  \E s \in Slots : \E sid \in SubIds :
    /\ Improves(s, sid)
    /\ Len(req[s].answerKey) = MaxTotal
    /\ req[s].score > subs[sid].score
    /\ subs[sid].score > 0

\* C8 as claimed: the response of a successful GET /tests carries the
\* selected test's answer_key.
C8_SelectionReturnsAnswerKey ==
  \A s \in Slots :
    (Finished(s, "get_tests") /\ req[s].status = 200)
    => /\ "answer_key" \in DOMAIN req[s].body
       /\ req[s].body.answer_key = tests[req[s].id].answer_key

\* C8 amended: the response of a successful GET /tests is the columns id,
\* title, subject, level, questions and created_at of a stored test of the
\* requested subject and level; it has no answer_key.
C8_SelectionOmitsAnswerKey ==
  \A s \in Slots :
    (Finished(s, "get_tests") /\ req[s].status = 200)
    => /\ DOMAIN req[s].body = {"id", "title", "subject", "level", "questions", "created_at"}
       /\ req[s].body.id \in DOMAIN tests
       /\ req[s].body.subject = req[s].in.subject
       /\ req[s].body.level = req[s].in.level
       /\ LET t == tests[req[s].body.id]
          IN /\ t.subject = req[s].in.subject /\ t.level = req[s].in.level
             /\ req[s].body.title = t.title
             /\ req[s].body.questions = t.questions
             /\ req[s].body.created_at = t.created_at

C8_Witness ==
  \E s \in Slots :
    /\ Finished(s, "get_tests") /\ req[s].status = 200
    /\ req[s].in.subject = "math"
    /\ Len(tests[req[s].id].answer_key) > 0

\* C9: a finished image-only replacement whose UPDATE failed (or that
\* answered anything but 200) has removed no file and has left the stored
\* tests as they were, so the test still references its old asset and that
\* file is where it was; a file of before is missing only when the request
\* answered 200 and the record references the new upload.
C9_ImageUnlinkFollowsUpdate ==
  \A s \in Slots :
    Finished(s, "image")
    => /\ req[s].status # 200 =>
            /\ req[s].pre.files \subseteq files
            /\ tests = req[s].pre.tests
       /\ ~(req[s].pre.files \subseteq files) =>
            /\ req[s].status = 200
            /\ ReferencesNewAsset(s)
            /\ req[s].pre.files \ files = OldAssets(s)

C9_Witness ==
  \E s \in Slots :
    /\ Finished(s, "image")
    /\ req[s].ctx.fault = "update"
    /\ req[s].status = 500
    /\ OldAssets(s) # {}
    /\ OldAssets(s) \subseteq files
    /\ tests[req[s].id].questions.image_url = req[s].pre.tests[req[s].id].questions.image_url

\* C10: a finished test deletion that answered anything but 200 (test absent,
\* detach or delete statement failed) has removed no file and no test; a file
\* is missing only when the test record is gone; and when the unlink of the
\* asset failed the request still answered 200 with the record deleted.
C10_DeleteUnlinkFollowsDelete ==
  \A s \in Slots :
    Finished(s, "delete")
    => /\ req[s].status # 200 =>
            /\ files = req[s].pre.files
            /\ tests = req[s].pre.tests
       /\ files # req[s].pre.files =>
            /\ req[s].status = 200
            /\ req[s].id \notin DOMAIN tests
            /\ req[s].pre.files \ files = OldAssets(s)
            /\ files \subseteq req[s].pre.files
       /\ req[s].ctx.unlinkFailed =>
            /\ req[s].status = 200
            /\ req[s].id \notin DOMAIN tests
            /\ files = req[s].pre.files

C10_Witness ==
  \E s \in Slots :
    /\ Finished(s, "delete")
    /\ req[s].ctx.unlinkFailed
    /\ req[s].status = 200
    /\ OnStoredTest(s)
    /\ req[s].id \notin DOMAIN tests
    /\ OldAssets(s) \subseteq files

\* no handler is between its first statement and its response
Quiescent == \A s \in Slots : req[s].pc \in {"idle", "done"}

\* C11: whenever no request is in progress, every stored test whose
\* questions.image_url is not null references a file that exists in the
\* uploads directory, after any interleaving of edits, image-only
\* replacements and deletions of the test, failed UPDATEs included.
C11_StoredImageExists ==
  Quiescent =>
    \A id \in DOMAIN tests :
      IsSome(tests[id].questions.image_url)
        => Get(tests[id].questions.image_url) \in files
====
